---- MODULE Spec2Model ----
(***************************************************************************)
(* Model of src/main.py: the /quiz endpoint (handle_quiz) and the          *)
(* background quiz-solving chain (process_quiz_cycle) with its helpers     *)
(* generate_solver_code and extract_submission_details.                    *)
(*                                                                         *)
(* One asyncio event loop runs everything.  A coroutine gives the loop up  *)
(* only at an await that really suspends (the playwright calls and         *)
(* asyncio.sleep); model.generate_content, exec and requests.post are      *)
(* synchronous calls and keep the loop.  `loop` is the request whose       *)
(* chain holds the loop thread, 0 when the loop is free.                   *)
(*                                                                         *)
(* Python strings that the code inspects are sequences of one-character    *)
(* strings; a program is a sequence of statement tokens; Python None and   *)
(* JSON values are the strings "None", "true", "false", ...                *)
(***************************************************************************)
EXTENDS Integers, Sequences, FiniteSets, TLC

VARIABLES arrived, task, resp, bg, stack, loop, cycles

vars == <<arrived, task, resp, bg, stack, loop, cycles>>

\* ---------------------------------------------------------------- bounds
\* The most activations of process_quiz_cycle in one run, over all chains.
\* The code has no such limit: the clients and the submission endpoint of
\* the model stop asking for cycles beyond it.
MaxCycles == 2

\* The requests of a run
Reqs == {1, 2}

\* ---------------------------------------------------------- configuration
MY_SECRET == "default_secret"
Secrets == {MY_SECRET, "wrong"}
\* the requester of the r-th request
Email(r) == <<"a@x.org", "b@x.org", "c@x.org", "d@x.org">>[r]
TaskUrls == {"https://q/1"}
NextUrls == {"https://q/2"}
None == "None"

QuizTasks(r) == [email : {Email(r)}, secret : Secrets, url : TaskUrls]
NoTask == [email |-> "", secret |-> "", url |-> ""]

\* ------------------------------------------------------------ strings
Whitespace == {" ", "\n"}

RECURSIVE LStrip(_)
LStrip(s) == IF s # <<>> /\ Head(s) \in Whitespace THEN LStrip(Tail(s)) ELSE s

RECURSIVE RStrip(_)
RStrip(s) ==
    IF s # <<>> /\ s[Len(s)] \in Whitespace THEN RStrip(SubSeq(s, 1, Len(s) - 1)) ELSE s

\* str.strip()
Strip(s) == RStrip(LStrip(s))

\* str.startswith(p)
StartsWith(s, p) == Len(s) >= Len(p) /\ SubSeq(s, 1, Len(p)) = p

\* str.replace(tok, ""), on a text whose fences are single tokens:
\* "[fence python]" is the opening fence of a python block, "[fence]" a bare fence
RECURSIVE Remove(_, _)
Remove(s, tok) ==
    IF s = <<>> THEN <<>>
    ELSE IF Head(s) = tok THEN Remove(Tail(s), tok)
    ELSE <<Head(s)>> \o Remove(Tail(s), tok)

HTTP == <<"h", "t", "t", "p">>
FALLBACK_URL == <<"h", "t", "t", "p", "s", ":", "/", "/", "e", "x", "a", "m", "p", "l", "e", ".", "c", "o", "m", "/", "s", "u", "b", "m", "i", "t">>

\* ------------------------------------------------- the language model
\* What model.generate_content can do: raise, or return a text.
LLMError == [err |-> TRUE, text |-> <<>>]
Reply(t) == [err |-> FALSE, text |-> t]

\* Replies to the solver prompt: statements of the generated program, with
\* or without markdown fences.  "bind1"/"bind2" assign final_answer, "noop"
\* assigns another name, "raise" raises an Exception, "exit" raises
\* SystemExit (sys.exit()), "syntax" does not compile.
SolverReplies ==
    { Reply(<<"[fence python]", "\n", "bind1", "\n", "[fence]">>),
      Reply(<<"noop">>),
      Reply(<<"bind2", "raise">>),
      Reply(<<"exit">>),
      Reply(<<"syntax", "bind1">>),
      LLMError }

\* Replies to the URL-extraction prompt.
ExtractReplies ==
    { Reply(<<" ", "h", "t", "t", "p", "s", ":", "/", "/", "s", "/", "a", "\n">>),
      Reply(<<"h", "t", "t", "p", "f", "o", "o">>),
      Reply(<<"f", "t", "p", ":", "/", "/", "s", "/", "a">>),
      Reply(<<>>),
      LLMError }

\* generate_solver_code returning the reply as it came
generate_solver_code_unstripped(out) == out.text

\* generate_solver_code: the reply without its fences, stripped; "" on error.
generate_solver_code(out) ==
    IF out.err THEN <<>>
    ELSE Strip(Remove(Remove(out.text, "[fence python]"), "[fence]"))

\* extract_submission_details: the stripped reply; an error of the model call
\* is not caught here.
extract_submission_details(out) == Strip(out.text)

\* ------------------------------------------------------------ exec
EmptyScope == [n \in {} |-> None]
Bind(scope, name, v) == [n \in DOMAIN scope \cup {name} |-> IF n = name THEN v ELSE scope[n]]
\* dict.get(name)
Get(d, name) == IF name \in DOMAIN d THEN d[name] ELSE None

RECURSIVE Run(_, _)
Run(code, scope) ==
    IF code = <<>> THEN [status |-> "ok", scope |-> scope]
    ELSE IF Head(code) = "bind1" THEN Run(Tail(code), Bind(scope, "final_answer", "1"))
    ELSE IF Head(code) = "bind2" THEN Run(Tail(code), Bind(scope, "final_answer", "2"))
    ELSE IF Head(code) = "noop" THEN Run(Tail(code), Bind(scope, "x", "1"))
    ELSE IF Head(code) = "exit" THEN [status |-> "BaseException", scope |-> scope]
    ELSE [status |-> "Exception", scope |-> scope]

\* exec(code, {}, scope): compiles the whole text first, then runs it.
Exec(code, scope) ==
    IF \E i \in 1..Len(code) : code[i] \notin {"bind1", "bind2", "noop", "raise", "exit"}
    THEN [status |-> "Exception", scope |-> scope]
    ELSE Run(code, scope)

\* ------------------------------------------------- submission endpoint
\* What requests.post(...).json() can yield: a JSON object (its keys among
\* "correct" and "url") or a JSON value that is no object.
JDict(d) == [kind |-> "dict", d |-> d]
JList == [kind |-> "list", d |-> EmptyScope]
NoResponse == [kind |-> "none", d |-> EmptyScope]

JsonBodies ==
    { JList,
      JDict(EmptyScope),
      JDict("correct" :> "false"),
      JDict("correct" :> "true"),
      JDict("correct" :> "true" @@ "url" :> ""),
      JDict("correct" :> "false" @@ "url" :> "https://q/2"),
      JDict("url" :> "https://q/2") }
      \cup { JDict("correct" :> "true" @@ "url" :> u) : u \in NextUrls }

\* The POST raises (network error, timeout), its body is no JSON, or it is.
PostOutcomes ==
    { [kind |-> "neterr", data |-> NoResponse], [kind |-> "badjson", data |-> NoResponse] }
    \cup { [kind |-> "json", data |-> j] : j \in JsonBodies }

\* Python truth of a JSON value
Truthy(v) == v \notin {"false", "null", "", "0", None}

\* requests refuses a URL without an http:// or https:// scheme
Postable(u) == StartsWith(u, HTTP \o <<":", "/", "/">>) \/ StartsWith(u, HTTP \o <<"s", ":", "/", "/">>)

\* line 141 with `or`
WantsNext_either(j) == Truthy(Get(j.d, "correct")) \/ Truthy(Get(j.d, "url"))

\* line 141: response_data.get("correct") and response_data.get("url")
WantsNext(j) == Truthy(Get(j.d, "correct")) /\ Truthy(Get(j.d, "url"))

\* ------------------------------------------------------------- frames
\* One activation of process_quiz_cycle: its arguments, its locals, its
\* position, and the number of external calls it has issued so far.
NoCalls == [render |-> 0, synth |-> 0, eval |-> 0, extract |-> 0, post |-> 0, recurse |-> 0]

NewFrame(task_url, email, secret) ==
    [task_url |-> task_url, email |-> email, secret |-> secret,
     pc |-> "start", exit |-> "normal", exc |-> "none",
     render_failed |-> FALSE, synth_err |-> FALSE, exec_status |-> "none", post_outcome |-> "none",
     page_text |-> "", browser |-> "none",
     code |-> <<>>, local_scope |-> EmptyScope, answer |-> None,
     submit_url |-> <<>>, posted_to |-> <<>>,
     payload |-> [email |-> "", secret |-> "", url |-> "", answer |-> None],
     response_data |-> NoResponse, child |-> "none",
     calls |-> NoCalls]

Depth(r) == Len(stack[r])
Top(r) == stack[r][Len(stack[r])]
SetTop(r, f) == [stack EXCEPT ![r][Len(stack[r])] = f]
At(r, p) == bg[r] = "running" /\ Depth(r) > 0 /\ Top(r).pc = p

Init ==
    /\ arrived = [r \in Reqs |-> FALSE]
    /\ task = [r \in Reqs |-> NoTask]
    /\ resp = [r \in Reqs |-> "none"]
    /\ bg = [r \in Reqs |-> "none"]
    /\ stack = [r \in Reqs |-> <<>>]
    /\ loop = 0
    /\ cycles = 0

\* Cycles started, or sure to start: those of the tasks posted with the
\* right secret and not yet entered.
Committed ==
    cycles + Cardinality({r \in Reqs : arrived[r] /\ task[r].secret = MY_SECRET
                                          /\ bg[r] \in {"none", "scheduled"}})

\* ------------------------------------------------------------- endpoint
\* A client POSTs a valid QuizTask to /quiz; the request waits for the loop.
ClientPost(r) ==
    /\ ~arrived[r]
    /\ \E t \in QuizTasks(r) :
          /\ t.secret = MY_SECRET => Committed < MaxCycles
          /\ task' = [task EXCEPT ![r] = t]
    /\ arrived' = [arrived EXCEPT ![r] = TRUE]
    /\ UNCHANGED <<resp, bg, stack, loop, cycles>>

\* handle_quiz with the secret check after the scheduling.
handle_quiz_schedule_first(r) ==
    /\ arrived[r] /\ resp[r] = "none" /\ loop = 0
    /\ bg' = [bg EXCEPT ![r] = "scheduled"]
    /\ resp' = [resp EXCEPT ![r] = IF task[r].secret # MY_SECRET THEN "403" ELSE "200"]
    /\ UNCHANGED <<arrived, task, stack, loop, cycles>>

\* handle_quiz awaiting the cycle instead of scheduling it: the chain starts
\* while the response is still to be produced.
handle_quiz_inline(r) ==
    /\ arrived[r] /\ resp[r] = "none" /\ loop = 0 /\ bg[r] = "none"
    /\ IF task[r].secret # MY_SECRET
       THEN /\ resp' = [resp EXCEPT ![r] = "403"]
            /\ UNCHANGED <<bg, stack, loop, cycles>>
       ELSE /\ bg' = [bg EXCEPT ![r] = "running"]
            /\ stack' = [stack EXCEPT ![r] =
                            <<NewFrame(task[r].url, task[r].email, task[r].secret)>>]
            /\ loop' = r
            /\ cycles' = cycles + 1
            /\ UNCHANGED resp
    /\ UNCHANGED <<arrived, task>>

\* handle_quiz: 403 on a secret mismatch, otherwise add_task and the
\* acknowledgment.  The handler has no await: it runs in one step of the loop.
handle_quiz(r) ==
    /\ arrived[r] /\ resp[r] = "none" /\ loop = 0
    /\ IF task[r].secret # MY_SECRET
       THEN /\ resp' = [resp EXCEPT ![r] = "403"]
            /\ UNCHANGED bg
       ELSE /\ bg' = [bg EXCEPT ![r] = "scheduled"]
            /\ resp' = [resp EXCEPT ![r] = "200"]
    /\ UNCHANGED <<arrived, task, stack, loop, cycles>>

\* The framework runs the scheduled background task once the response is out:
\* process_quiz_cycle(task.url, task.email, task.secret) is entered.
StartTask(r) ==
    /\ bg[r] = "scheduled" /\ loop = 0
    /\ bg' = [bg EXCEPT ![r] = "running"]
    /\ stack' = [stack EXCEPT ![r] =
                    <<NewFrame(task[r].url, task[r].email, task[r].secret)>>]
    /\ loop' = r
    /\ cycles' = cycles + 1
    /\ UNCHANGED <<arrived, task, resp>>

\* ------------------------------------------------------------ render
Pages == {"quiz page"}

\* Lines 78-83: page_text = "", `async with async_playwright()`, and the
\* launch is awaited: the coroutine suspends and gives the loop up.
EnterPlaywright(r) ==
    /\ At(r, "start") /\ loop = r
    /\ stack' = SetTop(r, [Top(r) EXCEPT !.pc = "launch", !.page_text = "",
                                         !.calls.render = @ + 1])
    /\ loop' = 0
    /\ UNCHANGED <<arrived, task, resp, bg, cycles>>

\* The except clause of lines 92-94 without its `return`: a failed await
\* falls through to browser.close() and the stages after it.
Failed_falls_through(f, how) ==
    IF how = "return" THEN [f EXCEPT !.pc = "close", !.render_failed = TRUE]
    ELSE [f EXCEPT !.pc = "aexit", !.exit = how, !.render_failed = TRUE]

\* A failed await of the render stage leaves the `async with` block: by the
\* exception itself outside the try ("raise"), by the `return` of the except
\* clause of lines 92-94 inside it ("return").
Failed(f, how) == [f EXCEPT !.pc = "aexit", !.exit = how, !.render_failed = TRUE]

\* Line 83: browser = await p.chromium.launch(headless=True), outside the try
Launch(r) ==
    /\ At(r, "launch") /\ loop = 0
    /\ \E ok \in BOOLEAN :
          stack' = SetTop(r, IF ok THEN [Top(r) EXCEPT !.pc = "new_page", !.browser = "open"]
                             ELSE Failed(Top(r), "raise"))
    /\ UNCHANGED <<arrived, task, resp, bg, loop, cycles>>

\* Line 84: page = await browser.new_page(), outside the try
NewPage(r) ==
    /\ At(r, "new_page") /\ loop = 0
    /\ \E ok \in BOOLEAN :
          stack' = SetTop(r, IF ok THEN [Top(r) EXCEPT !.pc = "goto"]
                             ELSE Failed(Top(r), "raise"))
    /\ UNCHANGED <<arrived, task, resp, bg, loop, cycles>>

\* Lines 86, 92-94: await page.goto(task_url, timeout=30000)
Goto(r) ==
    /\ At(r, "goto") /\ loop = 0
    /\ \E ok \in BOOLEAN :
          stack' = SetTop(r, IF ok THEN [Top(r) EXCEPT !.pc = "wait_for_selector"]
                             ELSE Failed(Top(r), "return"))
    /\ UNCHANGED <<arrived, task, resp, bg, loop, cycles>>

\* Lines 88, 92-94: await page.wait_for_selector("body")
WaitForSelector(r) ==
    /\ At(r, "wait_for_selector") /\ loop = 0
    /\ \E ok \in BOOLEAN :
          stack' = SetTop(r, IF ok THEN [Top(r) EXCEPT !.pc = "sleep"]
                             ELSE Failed(Top(r), "return"))
    /\ UNCHANGED <<arrived, task, resp, bg, loop, cycles>>

\* Line 90: await asyncio.sleep(2)
Sleep(r) ==
    /\ At(r, "sleep") /\ loop = 0
    /\ stack' = SetTop(r, [Top(r) EXCEPT !.pc = "inner_text"])
    /\ UNCHANGED <<arrived, task, resp, bg, loop, cycles>>

\* Lines 91-94: page_text = await page.inner_text("body")
InnerText(r) ==
    /\ At(r, "inner_text") /\ loop = 0
    /\ \E ok \in BOOLEAN, text \in Pages :
          stack' = SetTop(r, IF ok THEN [Top(r) EXCEPT !.pc = "close", !.page_text = text]
                             ELSE Failed(Top(r), "return"))
    /\ UNCHANGED <<arrived, task, resp, bg, loop, cycles>>

\* Line 95: await browser.close(), after the try
BrowserClose(r) ==
    /\ At(r, "close") /\ loop = 0
    /\ \E ok \in BOOLEAN :
          stack' = SetTop(r, IF ok THEN [Top(r) EXCEPT !.pc = "aexit", !.browser = "closed"]
                             ELSE Failed(Top(r), "raise"))
    /\ UNCHANGED <<arrived, task, resp, bg, loop, cycles>>

\* __aexit__ without the release: only browser.close() ends a browser.
Released_by_close_only(b) == b

\* The browser after __aexit__ of async_playwright(): the driver stops and
\* takes every browser it launched with it.
Released(b) == IF b = "open" THEN "closed" ELSE b

\* Line 82, leaving the `async with` block on any path; the coroutine then
\* runs on without suspending.
ExitPlaywright(r) ==
    /\ At(r, "aexit") /\ loop = 0
    /\ stack' = SetTop(r, [Top(r) EXCEPT
                             !.browser = Released(@),
                             !.pc = CASE Top(r).exit = "normal" -> "synth"
                                      [] Top(r).exit = "return" -> "returned"
                                      [] Top(r).exit = "raise" -> "raised",
                             !.exc = IF Top(r).exit = "raise" THEN "Exception" ELSE "none"])
    /\ loop' = r
    /\ UNCHANGED <<arrived, task, resp, bg, cycles>>

\* ------------------------------------------------- synthesis, evaluation
\* The synthesis followed at once by the URL extraction, the evaluation left
\* out of the sequence
GenerateSolverCode_then_extract(r) ==
    /\ At(r, "synth") /\ loop = r
    /\ \E out \in SolverReplies :
          stack' = SetTop(r, [Top(r) EXCEPT !.pc = "extract",
                                            !.code = generate_solver_code(out),
                                            !.synth_err = out.err,
                                            !.calls.synth = @ + 1])
    /\ UNCHANGED <<arrived, task, resp, bg, loop, cycles>>

\* Line 100: code = generate_solver_code(page_text)
GenerateSolverCode(r) ==
    /\ At(r, "synth") /\ loop = r
    /\ \E out \in SolverReplies :
          stack' = SetTop(r, [Top(r) EXCEPT !.pc = "exec",
                                            !.code = generate_solver_code(out),
                                            !.synth_err = out.err,
                                            !.calls.synth = @ + 1])
    /\ UNCHANGED <<arrived, task, resp, bg, loop, cycles>>

\* The evaluation without its except clause
Caught_nothing(status) == FALSE

\* Lines 111-114: `except Exception` catches an Exception, no BaseException
\* that is none (SystemExit, KeyboardInterrupt).
Caught(status) == status = "Exception"

\* A namespace kept across the cycles of a chain: the one the enclosing
\* cycle left behind.
local_scope_kept(r) ==
    IF Depth(r) > 1 THEN stack[r][Depth(r) - 1].local_scope ELSE EmptyScope

\* Line 105: local_scope = {}, a new dict in every activation
local_scope(r) == EmptyScope

\* Lines 105-114: local_scope = {}; exec(code, {}, local_scope);
\* answer = local_scope.get("final_answer"), None when exec raised
ExecuteCode(r) ==
    /\ At(r, "exec") /\ loop = r
    /\ LET res == Exec(Top(r).code, local_scope(r)) IN
          stack' = SetTop(r,
             IF res.status = "ok"
             THEN [Top(r) EXCEPT !.pc = "extract", !.local_scope = res.scope,
                                 !.answer = Get(res.scope, "final_answer"),
                                 !.exec_status = res.status, !.calls.eval = @ + 1]
             ELSE IF Caught(res.status)
             THEN [Top(r) EXCEPT !.pc = "extract", !.local_scope = res.scope,
                                 !.answer = None,
                                 !.exec_status = res.status, !.calls.eval = @ + 1]
             ELSE [Top(r) EXCEPT !.pc = "raised", !.exc = res.status,
                                 !.local_scope = res.scope,
                                 !.exec_status = res.status, !.calls.eval = @ + 1])
    /\ UNCHANGED <<arrived, task, resp, bg, loop, cycles>>

\* ------------------------------------------------------- submission
\* Line 118: submit_url = extract_submission_details(page_text); an error of
\* the model call leaves process_quiz_cycle as an exception.
ExtractSubmitUrl(r) ==
    /\ At(r, "extract") /\ loop = r
    /\ \E out \in ExtractReplies :
          stack' = SetTop(r,
             IF out.err
             THEN [Top(r) EXCEPT !.pc = "raised", !.exc = "Exception",
                                 !.calls.extract = @ + 1]
             ELSE [Top(r) EXCEPT !.pc = "check_url",
                                 !.submit_url = extract_submission_details(out),
                                 !.calls.extract = @ + 1])
    /\ UNCHANGED <<arrived, task, resp, bg, loop, cycles>>

\* Lines 121-124: the sanity check of the extracted URL
SanityCheck(u) == IF ~StartsWith(u, HTTP) THEN FALLBACK_URL ELSE u

\* Lines 121-132: the sanity check and the payload
BuildSubmission(r) ==
    /\ At(r, "check_url") /\ loop = r
    /\ stack' = SetTop(r, [Top(r) EXCEPT
                             !.pc = "post",
                             !.submit_url = SanityCheck(@),
                             !.payload = [email |-> Top(r).email, secret |-> Top(r).secret,
                                          url |-> Top(r).task_url, answer |-> Top(r).answer]])
    /\ UNCHANGED <<arrived, task, resp, bg, loop, cycles>>

\* The try of line 135 without its except clause
SubmissionCaught_nothing(exc) == FALSE

\* Lines 147-148: `except Exception` around the POST, the parse, the
\* decision and the recursive call
SubmissionCaught(exc) == exc = "Exception"

\* Lines 135-138, 147-148: requests.post(submit_url, json=payload, timeout=10)
\* and submit_response.json(); either may raise, into the except clause.
Submit(r) ==
    /\ At(r, "post") /\ loop = r
    /\ \E o \in PostOutcomes :
          /\ ~Postable(Top(r).submit_url) => o.kind = "neterr"
          /\ (o.kind = "json" /\ WantsNext(o.data)) => Committed < MaxCycles
          /\ stack' = SetTop(r,
                IF o.kind = "json"
                THEN [Top(r) EXCEPT !.pc = "decide", !.posted_to = Top(r).submit_url,
                                    !.post_outcome = o.kind,
                                    !.response_data = o.data, !.calls.post = @ + 1]
                ELSE [Top(r) EXCEPT !.pc = IF SubmissionCaught("Exception")
                                          THEN "returned" ELSE "raised",
                                    !.exc = IF SubmissionCaught("Exception")
                                           THEN "none" ELSE "Exception",
                                    !.posted_to = Top(r).submit_url,
                                    !.post_outcome = o.kind, !.calls.post = @ + 1])
    /\ UNCHANGED <<arrived, task, resp, bg, loop, cycles>>

\* The recursive call with email and secret in each other's place
NextCycle_swapped(f) == NewFrame(f.response_data.d["url"], f.secret, f.email)

\* Lines 142-145: process_quiz_cycle(next_url, email, secret)
NextCycle(f) == NewFrame(f.response_data.d["url"], f.email, f.secret)

\* Lines 141-148: a response that is no object has no .get and an object
\* without "url" no response_data["url"] (both caught at 147); a truthy
\* "correct" and a truthy "url" recurse into a new cycle for
\* response_data["url"]; anything else falls out of the try.
CheckNext(r) ==
    /\ At(r, "decide") /\ loop = r
    /\ LET f == Top(r) IN
          IF f.response_data.kind = "dict" /\ WantsNext(f.response_data)
                /\ "url" \in DOMAIN f.response_data.d
          THEN /\ stack' = [stack EXCEPT ![r] =
                     Append(SubSeq(@, 1, Len(@) - 1),
                            [f EXCEPT !.pc = "await_child", !.calls.recurse = @ + 1])
                     \o <<NextCycle(f)>>]
               /\ cycles' = cycles + 1
          ELSE IF (f.response_data.kind = "dict" /\ ~WantsNext(f.response_data))
                  \/ SubmissionCaught("Exception")
          THEN /\ stack' = SetTop(r, [f EXCEPT !.pc = "returned"])
               /\ UNCHANGED cycles
          ELSE /\ stack' = SetTop(r, [f EXCEPT !.pc = "raised", !.exc = "Exception"])
               /\ UNCHANGED cycles
    /\ UNCHANGED <<arrived, task, resp, bg, loop>>

\* A cycle that ended by a failure is entered again for the same URL.
Return_retry(r) ==
    /\ bg[r] = "running" /\ Depth(r) > 0 /\ Top(r).pc \in {"returned", "raised"}
    /\ loop = r
    /\ LET f == Top(r) IN
          IF f.pc = "raised" \/ f.render_failed \/ f.post_outcome \in {"neterr", "badjson"}
          THEN /\ stack' = SetTop(r, NewFrame(f.task_url, f.email, f.secret))
               /\ UNCHANGED <<bg, loop>>
          ELSE IF Depth(r) = 1
          THEN /\ stack' = [stack EXCEPT ![r] = <<>>]
               /\ bg' = [bg EXCEPT ![r] = "done"]
               /\ loop' = 0
          ELSE /\ stack' = [stack EXCEPT ![r] =
                     [SubSeq(@, 1, Len(@) - 1) EXCEPT ![Len(@) - 1] =
                        [@ EXCEPT !.pc = "returned", !.child = f.pc]]]
               /\ UNCHANGED <<bg, loop>>
    /\ UNCHANGED <<arrived, task, resp, cycles>>

\* The cycle awaiting a continuation cycle that failed goes back to its
\* submission.
Return_resubmit(r) ==
    /\ bg[r] = "running" /\ Depth(r) > 0 /\ Top(r).pc \in {"returned", "raised"}
    /\ loop = r
    /\ LET f == Top(r) IN
          IF Depth(r) = 1
          THEN /\ stack' = [stack EXCEPT ![r] = <<>>]
               /\ bg' = [bg EXCEPT ![r] = IF f.pc = "raised" THEN "failed" ELSE "done"]
               /\ loop' = 0
          ELSE /\ stack' = [stack EXCEPT ![r] =
                     [SubSeq(@, 1, Len(@) - 1) EXCEPT ![Len(@) - 1] =
                        IF f.pc = "raised"
                        THEN [@ EXCEPT !.pc = "post"]
                        ELSE [@ EXCEPT !.pc = "returned", !.child = f.pc]]]
               /\ UNCHANGED <<bg, loop>>
    /\ UNCHANGED <<arrived, task, resp, cycles>>

\* process_quiz_cycle ends.  A continuation cycle hands its outcome to the
\* cycle awaiting it at line 145, inside the try; the first cycle ends the
\* background task and frees the loop.
Return(r) ==
    /\ bg[r] = "running" /\ Depth(r) > 0 /\ Top(r).pc \in {"returned", "raised"}
    /\ loop = r
    /\ LET f == Top(r) IN
          IF Depth(r) = 1
          THEN /\ stack' = [stack EXCEPT ![r] = <<>>]
               /\ bg' = [bg EXCEPT ![r] = IF f.pc = "raised" THEN "failed" ELSE "done"]
               /\ loop' = 0
          ELSE /\ stack' = [stack EXCEPT ![r] =
                     [SubSeq(@, 1, Len(@) - 1) EXCEPT ![Len(@) - 1] =
                        IF f.pc = "raised" /\ ~SubmissionCaught(f.exc)
                        THEN [@ EXCEPT !.pc = "raised", !.exc = f.exc]
                        ELSE [@ EXCEPT !.pc = "returned", !.child = f.pc]]]
               /\ UNCHANGED <<bg, loop>>
    /\ UNCHANGED <<arrived, task, resp, cycles>>

\* --------------------------------------------------------------- system
Next ==
    \E r \in Reqs :
       \/ ClientPost(r)
       \/ handle_quiz(r)
       \/ StartTask(r)
       \/ EnterPlaywright(r)
       \/ Launch(r)
       \/ NewPage(r)
       \/ Goto(r)
       \/ WaitForSelector(r)
       \/ Sleep(r)
       \/ InnerText(r)
       \/ BrowserClose(r)
       \/ ExitPlaywright(r)
       \/ GenerateSolverCode(r)
       \/ ExecuteCode(r)
       \/ ExtractSubmitUrl(r)
       \/ BuildSubmission(r)
       \/ Submit(r)
       \/ CheckNext(r)
       \/ Return(r)

Spec == Init /\ [][Next]_vars

\* The steps of the chain of request r
ChainStep(r) ==
    \/ StartTask(r) \/ EnterPlaywright(r) \/ Launch(r) \/ NewPage(r) \/ Goto(r)
    \/ WaitForSelector(r) \/ Sleep(r) \/ InnerText(r) \/ BrowserClose(r)
    \/ ExitPlaywright(r) \/ GenerateSolverCode(r) \/ ExecuteCode(r)
    \/ ExtractSubmitUrl(r) \/ BuildSubmission(r) \/ Submit(r) \/ CheckNext(r)
    \/ Return(r)

\* The event loop runs every coroutine that can go on, and every external
\* call (render with its 30 s timeout, model call, POST with its 10 s timeout)
\* returns or fails in finite time.
FairSpec == Spec /\ \A r \in Reqs : WF_vars(ChainStep(r))

\* =============================================================== claims
RenderPcs == {"start", "launch", "new_page", "goto", "wait_for_selector",
              "sleep", "inner_text", "close", "aexit"}
\* positions of a cycle that has left its own stages behind
Finished == {"await_child", "returned", "raised"}

\* C1: a request whose secret differs from the configured secret is answered
\* with 403 and nothing else, and no background work exists for it: no task
\* is scheduled and no process_quiz_cycle is ever entered.
C1_MismatchRejectedNothingScheduled ==
    \A r \in Reqs :
       (arrived[r] /\ task[r].secret # "default_secret") =>
          /\ resp[r] \in {"none", "403"}
          /\ bg[r] = "none"
          /\ stack[r] = <<>>

C1_Witness ==
    \E r \in Reqs : arrived[r] /\ task[r].secret = "wrong" /\ resp[r] = "403"

\* C2: the acknowledgment of an accepted task is produced before any stage of
\* its chain has begun, let alone finished: whenever the chain of a request
\* runs or has ended, at whatever depth, the acknowledgment is already out.
C2_AckBeforeAnyStage ==
    \A r \in Reqs :
       (bg[r] \in {"running", "done", "failed"} \/ stack[r] # <<>>) => resp[r] = "200"

C2_Witness ==
    \E r \in Reqs :
       /\ resp[r] = "200" /\ bg[r] = "running"
       /\ Len(stack[r]) = 2 /\ stack[r][2].pc = "post"

\* C3: a cycle whose render failed issues no synthesis call, no evaluation,
\* no URL-extraction call and no POST, starts no further cycle, and has
\* rendered once only (no retry).
C3_RenderFailureAbortsCycle ==
    \A r \in Reqs : \A i \in 1..Len(stack[r]) :
       LET f == stack[r][i] IN
          /\ f.calls.render <= 1
          /\ f.render_failed =>
                /\ f.pc \in {"aexit", "returned", "raised"}
                /\ f.calls.render = 1
                /\ f.calls.synth = 0 /\ f.calls.eval = 0 /\ f.calls.extract = 0
                /\ f.calls.post = 0 /\ f.calls.recurse = 0
                /\ i = Len(stack[r])

C3_Witness ==
    \E r \in Reqs : \E i \in 1..Len(stack[r]) :
       stack[r][i].render_failed /\ stack[r][i].exit = "return"
          /\ stack[r][i].pc = "returned"

\* C4: a program that runs to its end without binding final_answer gives the
\* answer None, and the cycle does not end without its POST, whose payload
\* has the answer None.
C4_UnboundAnswerStillSubmitted ==
    \A r \in Reqs : \A i \in 1..Len(stack[r]) :
       LET f == stack[r][i] IN
          (f.exec_status = "ok" /\ "final_answer" \notin DOMAIN f.local_scope) =>
             /\ f.answer = "None"
             /\ f.pc \in Finished => (f.calls.post = 1 /\ f.payload.answer = "None")

\* the response of the submission endpoint asks for a next cycle
Continuing(j) ==
    /\ j.kind = "dict"
    /\ "correct" \in DOMAIN j.d /\ j.d["correct"] = "true"
    /\ "url" \in DOMAIN j.d /\ j.d["url"] # ""

\* C5: a cycle is followed by a further cycle if and only if its submission
\* response has a truthy "correct" and a non-empty "url"; then there is one
\* further cycle, which renders once, the URL of the response; no other
\* outcome of the submission is followed by a cycle.
C5_ContinueIffCorrectAndNextUrl ==
    \A r \in Reqs : \A i \in 1..Len(stack[r]) :
       LET f == stack[r][i] IN
          /\ f.calls.recurse <= 1
          /\ (i < Len(stack[r])) <=> (f.pc = "await_child")
          /\ (f.calls.recurse = 1) => (f.post_outcome = "json" /\ Continuing(f.response_data))
          /\ (f.pc \in Finished /\ f.post_outcome = "json" /\ Continuing(f.response_data))
                => f.calls.recurse = 1
          /\ (f.pc = "await_child") =>
                /\ f.calls.recurse = 1
                /\ stack[r][i + 1].task_url = f.response_data.d["url"]
                /\ stack[r][i + 1].calls.render =
                      IF stack[r][i + 1].pc = "start" THEN 0 ELSE 1

C5_Witness ==
    \E r \in Reqs :
       /\ Len(stack[r]) = 2
       /\ stack[r][1].response_data = JDict("correct" :> "true" @@ "url" :> "https://q/2")
       /\ stack[r][2].task_url = "https://q/2" /\ stack[r][2].calls.render = 1

\* C6: a POST that raises (network error, timeout) or whose body is no JSON
\* ends its cycle by a normal return: the cycle is the last of its chain and
\* has issued one render, one synthesis call, one POST and no further cycle.
C6_SubmissionErrorEndsChainQuietly ==
    \A r \in Reqs : \A i \in 1..Len(stack[r]) :
       LET f == stack[r][i] IN
          f.post_outcome \in {"neterr", "badjson"} =>
             /\ f.pc = "returned"
             /\ i = Len(stack[r])
             /\ f.calls.recurse = 0 /\ f.calls.post = 1
             /\ f.calls.render = 1 /\ f.calls.synth = 1

C6_Witness ==
    \E r \in Reqs :
       /\ Len(stack[r]) = 2 /\ stack[r][2].post_outcome = "badjson"
       /\ stack[r][2].pc = "returned"

\* C7: no cycle ends by raising an exception, and no background task ends by
\* one.
C7_CycleNeverRaises ==
    \A r \in Reqs :
       /\ bg[r] # "failed"
       /\ \A i \in 1..Len(stack[r]) : stack[r][i].pc # "raised"

\* C8: an evaluation that raised leaves the answer None, does not end the
\* cycle, and the cycle does not end without its POST, whose payload has the
\* answer None.
C8_EvaluationErrorGivesNullAndSubmits ==
    \A r \in Reqs : \A i \in 1..Len(stack[r]) :
       LET f == stack[r][i] IN
          f.exec_status \in {"Exception", "BaseException"} =>
             /\ f.answer = "None"
             /\ f.pc \in Finished => (f.calls.post = 1 /\ f.payload.answer = "None")

\* C9: a failed model call of the synthesis stage gives the empty program,
\* whose evaluation ends normally with the answer None, and the cycle does not
\* end without its POST, whose payload has the answer None.
C9_SynthesisErrorGivesNullAndSubmits ==
    \A r \in Reqs : \A i \in 1..Len(stack[r]) :
       LET f == stack[r][i] IN
          f.synth_err =>
             /\ f.code = <<>>
             /\ f.exec_status \in {"none", "ok"}
             /\ f.answer = "None"
             /\ f.pc \in Finished => (f.calls.post = 1 /\ f.payload.answer = "None")

\* C10: a cycle that has left its render stage, on whatever path, holds no
\* open browser; in particular none is open when the synthesis begins.
C10_BrowserReleasedAfterRender ==
    \A r \in Reqs : \A i \in 1..Len(stack[r]) :
       stack[r][i].pc \notin RenderPcs => stack[r][i].browser # "open"

C10_Witness ==
    \E r \in Reqs : \E i \in 1..Len(stack[r]) :
       /\ stack[r][i].render_failed /\ stack[r][i].exit = "return"
       /\ stack[r][i].browser = "closed" /\ stack[r][i].pc = "returned"

\* positions at which a cycle sits in an external call: the awaits of the
\* render stage, the two model calls, the POST
SuspensionPcs == {"launch", "new_page", "goto", "wait_for_selector", "sleep",
                  "inner_text", "close", "aexit", "synth", "extract", "post"}

\* C11: while a chain sits in a browser await, a model call or the POST, a
\* request that has arrived and is not yet answered can be handled:
\* handle_quiz is enabled for it.
C11_RequestsServedDuringSuspension ==
    \A r \in Reqs : \A q \in Reqs :
       (q # r /\ bg[r] = "running" /\ Len(stack[r]) > 0
          /\ stack[r][Len(stack[r])].pc \in SuspensionPcs
          /\ arrived[q] /\ resp[q] = "none")
       => ENABLED handle_quiz(q)

\* C12: in every cycle the stages come in the order render, synthesis,
\* evaluation, URL extraction, submission, each begun only when the one
\* before it has ended; a further cycle exists only once the submission
\* response of the cycle before it is there; and of the cycles of a chain
\* only the last one is active, the others wait for it.
C12_StagesStrictlySequential ==
    \A r \in Reqs : \A i \in 1..Len(stack[r]) :
       LET f == stack[r][i]
           c == f.calls IN
          /\ c.render <= 1 /\ c.synth <= 1 /\ c.eval <= 1
          /\ c.extract <= 1 /\ c.post <= 1 /\ c.recurse <= 1
          /\ c.synth = 1 => (c.render = 1 /\ f.pc \notin RenderPcs /\ ~f.render_failed)
          /\ c.eval = 1 => (c.synth = 1 /\ f.exec_status # "none")
          /\ c.extract = 1 => (c.eval = 1 /\ f.exec_status \in {"ok", "Exception"})
          /\ c.post = 1 => (c.extract = 1 /\ f.post_outcome # "none")
          /\ c.recurse = 1 => (c.post = 1 /\ f.post_outcome = "json")
          /\ f.pc \in RenderPcs => (c.synth = 0 /\ c.eval = 0 /\ c.extract = 0 /\ c.post = 0)
          /\ f.pc = "synth" => (c.render = 1 /\ c.synth = 0)
          /\ f.pc = "exec" => (c.synth = 1 /\ c.eval = 0)
          /\ f.pc = "extract" => (c.eval = 1 /\ c.extract = 0)
          /\ f.pc \in {"check_url", "post"} => (c.extract = 1 /\ c.post = 0)
          /\ f.pc = "decide" => (c.post = 1 /\ c.recurse = 0)
          /\ i < Len(stack[r]) => (f.pc = "await_child" /\ c.post = 1 /\ c.recurse = 1
                                   /\ f.post_outcome = "json")
          /\ i = Len(stack[r]) => f.pc # "await_child"

C12_Witness ==
    \E r \in Reqs :
       /\ Len(stack[r]) = 2
       /\ stack[r][1].pc = "await_child"
       /\ stack[r][2].pc = "decide" /\ stack[r][2].calls.post = 1

\* a string that begins with http:// or https://
HasHttpScheme(u) ==
    \/ StartsWith(u, <<"h", "t", "t", "p", ":", "/", "/">>)
    \/ StartsWith(u, <<"h", "t", "t", "p", "s", ":", "/", "/">>)

\* C13: the sanity check keeps the extracted string exactly when it begins
\* with http:// or https:// and puts the fallback URL in its place otherwise,
\* the empty string included; the POST goes to the URL so chosen.
C13_SubmitUrlValidated ==
    [][\A r \in Reqs :
          (bg[r] = "running" /\ Len(stack[r]) > 0 /\ Len(stack'[r]) = Len(stack[r])) =>
             LET f == stack[r][Len(stack[r])]
                 g == stack'[r][Len(stack[r])] IN
                /\ (f.pc = "check_url" /\ g.pc = "post") =>
                      g.submit_url = IF HasHttpScheme(f.submit_url)
                                     THEN f.submit_url ELSE FALLBACK_URL
                /\ (f.pc = "post" /\ g.calls.post = 1) =>
                      (g.posted_to = f.submit_url /\ HasHttpScheme(g.posted_to))]_vars

\* the payload of lines 127-132 has been built
PayloadBuilt(f) == f.payload.url # ""

\* C14: every cycle of a chain, the first and the continuations, has the
\* email and the secret of the request that began the chain; its payload is
\* that email, that secret, the URL this cycle renders (for a continuation
\* the "url" of the response before it) and the answer of this cycle's own
\* evaluation; and a payload, once built, is posted, with the answer None as
\* with any other.
C14_PayloadOfOwnCycle ==
    \A r \in Reqs : \A i \in 1..Len(stack[r]) :
       LET f == stack[r][i] IN
          /\ f.email = task[r].email /\ f.secret = task[r].secret
          /\ f.task_url = IF i = 1 THEN task[r].url
                          ELSE stack[r][i - 1].response_data.d["url"]
          /\ f.pc \in {"post", "decide", "await_child"} => PayloadBuilt(f)
          /\ PayloadBuilt(f) =>
                /\ f.payload.email = task[r].email
                /\ f.payload.secret = task[r].secret
                /\ f.payload.url = f.task_url
                /\ f.payload.answer = f.answer
                /\ f.exec_status = "ok" => f.answer = Get(f.local_scope, "final_answer")
                /\ f.exec_status = "Exception" => f.answer = "None"
                /\ f.pc # "post" => f.calls.post = 1

C14_Witness ==
    \E r \in Reqs :
       /\ Len(stack[r]) = 2
       /\ stack[r][1].payload.url = "https://q/1" /\ stack[r][1].payload.answer = "1"
       /\ stack[r][2].calls.post = 1
       /\ stack[r][2].payload.url = "https://q/2"
       /\ stack[r][2].payload.answer = "None"
       /\ stack[r][2].payload.email = task[r].email

\* the program has a statement that assigns final_answer
Binds(code) == \E i \in 1..Len(code) : code[i] \in {"bind1", "bind2"}

\* C15: the namespace of an evaluation holds nothing but what the program of
\* this cycle has assigned: a program that assigns no final_answer gives the
\* answer None, whatever an earlier cycle of the chain or a cycle of another
\* chain has bound, and the answer of a program that assigns it is its own.
C15_FreshNamespacePerEvaluation ==
    \A r \in Reqs : \A i \in 1..Len(stack[r]) :
       LET f == stack[r][i] IN
          f.exec_status # "none" =>
             /\ ~Binds(f.code) =>
                   (f.answer = "None" /\ "final_answer" \notin DOMAIN f.local_scope)
             /\ "x" \in DOMAIN f.local_scope => (\E k \in 1..Len(f.code) : f.code[k] = "noop")
             /\ (f.exec_status = "ok" /\ f.code = <<"bind1">>) => f.answer = "1"
             /\ f.answer \in {"None", "1", "2"}
             /\ f.answer = "2" => (\E k \in 1..Len(f.code) : f.code[k] = "bind2")

C15_Witness ==
    \E r \in Reqs :
       /\ Len(stack[r]) = 2
       /\ stack[r][1].answer = "1"
       /\ stack[r][2].exec_status = "ok" /\ stack[r][2].code = <<"noop">>
       /\ stack[r][2].answer = "None"

\* the last cycle of the chain of r has met a failure that ends it or a
\* submission response that asks for no further cycle
TerminalReached(r) ==
    /\ bg[r] = "running" /\ Len(stack[r]) > 0
    /\ LET f == stack[r][Len(stack[r])] IN
          \/ f.pc \in {"returned", "raised"}
          \/ f.render_failed
          \/ f.post_outcome \in {"neterr", "badjson"}
          \/ (f.post_outcome = "json" /\ ~Continuing(f.response_data))

\* the external calls the live cycles of the chain of r have issued
RECURSIVE CallsOf(_, _)
CallsOf(st, i) ==
    IF i = 0 THEN 0
    ELSE st[i].calls.render + st[i].calls.synth + st[i].calls.eval
         + st[i].calls.extract + st[i].calls.post + CallsOf(st, i - 1)

\* C16: once a cycle of a chain has met a failure that ends it or a response
\* that is not a continuing one, the chain starts no cycle and issues no
\* call any more, it only unwinds; and, every step due being taken, the
\* chain terminates.  A chain can thus go on only through continuing
\* responses.
C16_ChainTerminates ==
    /\ [][\A r \in Reqs :
            TerminalReached(r) =>
               /\ Len(stack'[r]) <= Len(stack[r])
               /\ bg'[r] \in {"running", "done", "failed"}
               /\ bg'[r] = "running" =>
                     CallsOf(stack'[r], Len(stack'[r])) <= CallsOf(stack[r], Len(stack[r]))]_vars
    /\ \A r \in Reqs : TerminalReached(r) ~> (bg[r] \in {"done", "failed"})

C16_Witness ==
    \E r \in Reqs :
       /\ Len(stack[r]) = 2
       /\ stack[r][2].post_outcome = "json" /\ stack[r][2].pc = "returned"
       /\ stack[r][2].response_data = JDict("correct" :> "false")

\* the submission POSTs the live cycles of a chain have issued
RECURSIVE PostsOf(_, _)
PostsOf(st, i) ==
    IF i = 0 THEN 0 ELSE st[i].calls.post + PostsOf(st, i - 1)

\* C17: a cycle performs each of its stages at most once and posts at most
\* once, for the URL it rendered; the cycles of a chain issue no more POSTs
\* than there are cycles; and when a continuation cycle ends, by a failure
\* or not, the cycles enclosing it have repeated nothing: their counts of
\* stages are what they were and the cycle that awaited it is over.
C17_EachStageAtMostOncePerCycle ==
    /\ [](\A r \in Reqs :
            /\ PostsOf(stack[r], Len(stack[r])) <= Len(stack[r])
            /\ \A i \in 1..Len(stack[r]) :
                 LET f == stack[r][i] IN
                   /\ f.calls.render <= 1 /\ f.calls.synth <= 1 /\ f.calls.eval <= 1
                   /\ f.calls.extract <= 1 /\ f.calls.post <= 1 /\ f.calls.recurse <= 1
                   /\ f.calls.post <= f.calls.render
                   /\ f.calls.post = 1 => f.payload.url = f.task_url
                   /\ f.child # "none" => f.pc = "returned" /\ f.calls.post = 1)
    /\ [][\A r \in Reqs :
            /\ \A i \in 1..Len(stack[r]) :
                 (i < Len(stack[r]) /\ i <= Len(stack'[r]))
                    => stack'[r][i].calls = stack[r][i].calls
            /\ (Len(stack'[r]) < Len(stack[r]) /\ Len(stack'[r]) > 0)
                    => stack'[r][Len(stack'[r])].pc \in {"returned", "raised"}]_vars

C17_Witness ==
    \E r \in Reqs :
       /\ Len(stack[r]) = 1
       /\ stack[r][1].pc = "returned" /\ stack[r][1].child = "raised"
       /\ stack[r][1].calls.post = 1 /\ stack[r][1].calls.recurse = 1

====
